---------------------------- MODULE Spec2Model ----------------------------
(***************************************************************************)
(* Model of the two command-line utilities of rke2-infra-verification:     *)
(*   scripts/check_inventory.py   the inventory validator    (Spec)        *)
(*   scripts/check_ssh_config.py  the SSH trust checker      (SpecSsh)     *)
(*                                                                         *)
(* A YAML value is a record [t, s, kv]:                                    *)
(*   t = "str"   s  is the string, a sequence of one-character strings     *)
(*   t = "null"  YAML null (Python None)                                   *)
(*   t = "map"   kv is the sequence of <<key, value>> pairs, in the        *)
(*               mapping's iteration (insertion) order, keys unique        *)
(*   t = "list"  kv is the sequence of items                               *)
(* Mapping keys and host names are TLA+ strings; string VALUES are         *)
(* character sequences, because the code searches and parses them.         *)
(***************************************************************************)
EXTENDS Integers, Sequences, FiniteSets, TLC

(***************************************************************************)
(* Bounds of the model.                                                    *)
(***************************************************************************)
\* hosts listed under one group of a generated inventory
MaxHosts == 2
\* deviations of a generated inventory from the fully valid one
MaxDefects == 2
\* target hosts (masters plus workers) of a trust-checker run
MaxTargets == 2

(***************************************************************************)
(* YAML values.                                                            *)
(***************************************************************************)
Str(s) == [t |-> "str", s |-> s, kv |-> <<>>]
Null == [t |-> "null", s |-> <<>>, kv |-> <<>>]
Map(kv) == [t |-> "map", s |-> <<>>, kv |-> kv]
List(items) == [t |-> "list", s |-> <<>>, kv |-> items]

IsStr(v) == v.t = "str"
IsMap(v) == v.t = "map"
IsList(v) == v.t = "list"

IsNull(v) == v.t = "null"

\* key in dict
HasKey(m, k) == IsMap(m) /\ \E i \in 1..Len(m.kv) : m.kv[i][1] = k
\* dict[key], for a key the dict has
Get(m, k) == m.kv[CHOOSE i \in 1..Len(m.kv) : m.kv[i][1] = k][2]
\* dict.get(key, {})
GetOrEmpty(m, k) == IF HasKey(m, k) THEN Get(m, k) ELSE Map(<<>>)
\* Python truthiness of a YAML value: None, '', {} and [] are falsy
Truthy(v) ==
    CASE v.t = "null" -> FALSE
      [] v.t = "str" -> v.s # <<>>
      [] OTHER -> v.kv # <<>>

(***************************************************************************)
(* Strings as character sequences.                                         *)
(***************************************************************************)
DigitChars == {"0", "1", "2", "3", "4", "5", "6", "7", "8", "9"}
HexChars ==
    DigitChars \cup {"a", "b", "c", "d", "e", "f", "A", "B", "C", "D", "E", "F"}
DigitVal(c) ==
    CASE c = "0" -> 0 [] c = "1" -> 1 [] c = "2" -> 2 [] c = "3" -> 3
      [] c = "4" -> 4 [] c = "5" -> 5 [] c = "6" -> 6 [] c = "7" -> 7
      [] c = "8" -> 8 [] c = "9" -> 9

\* needle in haystack (Python's substring test on str)
Contains(hay, needle) ==
    \E i \in 0..(Len(hay) - Len(needle)) :
        \A j \in 1..Len(needle) : hay[i + j] = needle[j]

\* positions of the separator character in s
SepPositions(s, sep) == {i \in 1..Len(s) : s[i] = sep}
\* str.split(sep) for a one-character separator: the parts, in order
RECURSIVE SplitFrom(_, _, _)
SplitFrom(s, sep, from) ==
    LET later == {i \in SepPositions(s, sep) : i >= from}
    IN  IF later = {}
        THEN <<SubSeq(s, from, Len(s))>>
        ELSE LET p == CHOOSE i \in later : \A j \in later : i <= j
             IN  <<SubSeq(s, from, p - 1)>> \o SplitFrom(s, sep, p + 1)
Split(s, sep) == SplitFrom(s, sep, 1)

\* int(s) of a string of ASCII digits, saturating at 1000 (every limit the
\* parsers compare against is below that)
RECURSIVE DecimalValue(_)
DecimalValue(s) ==
    IF s = <<>>
    THEN 0
    ELSE LET v == DecimalValue(SubSeq(s, 1, Len(s) - 1)) * 10 + DigitVal(s[Len(s)])
         IN  IF v > 1000 THEN 1000 ELSE v
AllDigits(s) == s # <<>> /\ \A i \in 1..Len(s) : s[i] \in DigitChars

\* the characters of a key or name
Chars(k) == [i \in 1..Len(k) |-> SubSeq(k, i, i)]
\* `k in v` for a string k and a value v that is not None: a key of a dict,
\* a substring of a str, an item of a list
In(k, v) ==
    CASE IsMap(v) -> HasKey(v, k)
      [] IsStr(v) -> Contains(v.s, Chars(k))
      [] IsList(v) -> \E i \in 1..Len(v.kv) : v.kv[i] = Str(Chars(k))
      [] OTHER -> FALSE

\* how a function ends: it returns its (errors, warnings), or it raises exc
\* and returns nothing
Returned(errors, warnings) ==
    [raised |-> FALSE, exc |-> "", errors |-> errors, warnings |-> warnings]
Raised(exc) == [raised |-> TRUE, exc |-> exc, errors |-> <<>>, warnings |-> <<>>]
\* first a, then b, both appending to the same lists
Then(a, b) ==
    IF a.raised
    THEN a
    ELSE IF b.raised
    THEN b
    ELSE Returned(a.errors \o b.errors, a.warnings \o b.warnings)

(***************************************************************************)
(* Placeholder patterns: each regular expression is a sequence of tokens,  *)
(* a literal character or DigitsPlus for \d+ .                             *)
(***************************************************************************)
DigitsPlus == "\\d+"

\* the decimal digits of the other scripts (Unicode category Nd), which \d
\* matches in a str pattern as it does 0-9: U+06F0.., U+07C0.., U+09E6..,
\* U+0AE6.., U+0BE6.., U+0CE6.., U+0DE6.., U+0ED0.., U+1090.., U+17E0..,
\* U+19D0.., U+1A80.., U+1A90.., U+1BB0.., U+A8D0.., U+A9D0.., U+A9F0..,
\* U+ABF0.., ten each; the digits of the remaining scripts (U+0660..,
\* U+0966.., U+FF10.. and others) are no characters of a string here
UnicodeDigitChars ==
    {"۰", "۱", "۲", "۳", "۴", "۵", "۶", "۷", "۸", "۹",
     "߀", "߁", "߂", "߃", "߄", "߅", "߆", "߇", "߈", "߉",
     "০", "১", "২", "৩", "৪", "৫", "৬", "৭", "৮", "৯",
     "૦", "૧", "૨", "૩", "૪", "૫", "૬", "૭", "૮", "૯",
     "௦", "௧", "௨", "௩", "௪", "௫", "௬", "௭", "௮", "௯",
     "೦", "೧", "೨", "೩", "೪", "೫", "೬", "೭", "೮", "೯",
     "෦", "෧", "෨", "෩", "෪", "෫", "෬", "෭", "෮", "෯",
     "໐", "໑", "໒", "໓", "໔", "໕", "໖", "໗", "໘", "໙",
     "႐", "႑", "႒", "႓", "႔", "႕", "႖", "႗", "႘", "႙",
     "០", "១", "២", "៣", "៤", "៥", "៦", "៧", "៨", "៩",
     "᧐", "᧑", "᧒", "᧓", "᧔", "᧕", "᧖", "᧗", "᧘", "᧙",
     "᪀", "᪁", "᪂", "᪃", "᪄", "᪅", "᪆", "᪇", "᪈", "᪉",
     "᪐", "᪑", "᪒", "᪓", "᪔", "᪕", "᪖", "᪗", "᪘", "᪙",
     "᮰", "᮱", "᮲", "᮳", "᮴", "᮵", "᮶", "᮷", "᮸", "᮹",
     "꣐", "꣑", "꣒", "꣓", "꣔", "꣕", "꣖", "꣗", "꣘", "꣙",
     "꧐", "꧑", "꧒", "꧓", "꧔", "꧕", "꧖", "꧗", "꧘", "꧙",
     "꧰", "꧱", "꧲", "꧳", "꧴", "꧵", "꧶", "꧷", "꧸", "꧹",
     "꯰", "꯱", "꯲", "꯳", "꯴", "꯵", "꯶", "꯷", "꯸", "꯹"}
\* the characters \d matches
ReDigitChars == DigitChars \cup UnicodeDigitChars

PLACEHOLDER_PATTERNS ==
    <<
      <<"<", "B", "A", "S", "T", "I", "O", "N", "_", "I", "P", ">">>,
      <<"<", "M", "A", "S", "T", "E", "R", DigitsPlus, "_", "I", "P", ">">>,
      <<"<", "W", "O", "R", "K", "E", "R", DigitsPlus, "_", "I", "P", ">">>,
      <<"<", "B", "A", "S", "T", "I", "O", "N", "_", "H", "O", "S", "T", "N", "A", "M", "E", ">">>,
      <<"<", "M", "A", "S", "T", "E", "R", DigitsPlus, "_", "H", "O", "S", "T", "N", "A", "M", "E", ">">>,
      <<"<", "W", "O", "R", "K", "E", "R", DigitsPlus, "_", "H", "O", "S", "T", "N", "A", "M", "E", ">">>,
      <<"<", "S", "S", "H", "_", "U", "S", "E", "R", ">">>,
      <<"<", "S", "S", "H", "_", "K", "E", "Y", "_", "N", "A", "M", "E", ">">>,
      <<"<", "W", "O", "R", "K", "E", "R", DigitsPlus, "_", "M", "G", "M", "T", "_", "I", "P", ">">>,
      <<"<", "W", "O", "R", "K", "E", "R", DigitsPlus, "_", "D", "A", "T", "A", "_", "I", "P", ">">>
    >>

\* the pattern's tokens from pi on match s starting at position si
RECURSIVE MatchAt(_, _, _, _)
MatchAt(pat, pi, s, si) ==
    IF pi > Len(pat)
    THEN TRUE
    ELSE IF si > Len(s)
    THEN FALSE
    ELSE IF pat[pi] = DigitsPlus
    THEN /\ s[si] \in ReDigitChars
         /\ \/ MatchAt(pat, pi, s, si + 1)
            \/ MatchAt(pat, pi + 1, s, si + 1)
    ELSE s[si] = pat[pi] /\ MatchAt(pat, pi + 1, s, si + 1)

\* re.search(pattern, s): a match starting anywhere in s
ReSearch(pat, s) == \E i \in 1..Len(s) : MatchAt(pat, 1, s, i)

(***************************************************************************)
(* ipaddress.ip_address / ip_network, as the standard library parses.      *)
(***************************************************************************)
\* one octet of a dotted quad: 1 to 3 ASCII digits, no leading zero, <= 255
ValidOctet(p) ==
    /\ AllDigits(p)
    /\ Len(p) <= 3
    /\ (Len(p) > 1 => p[1] # "0")
    /\ DecimalValue(p) <= 255
ValidIPv4(s) ==
    LET parts == Split(s, ".")
    IN  Len(parts) = 4 /\ \A i \in 1..4 : ValidOctet(parts[i])

\* one group of an IPv6 address: 1 to 4 hexadecimal digits
ValidHextet(p) ==
    p # <<>> /\ Len(p) <= 4 /\ \A i \in 1..Len(p) : p[i] \in HexChars
\* IPv6Address._ip_int_from_string: the groups between ':', one '::' at
\* most, and an embedded dotted quad as the last group
ValidIPv6Groups(s) ==
    LET raw == Split(s, ":")
        n0 == Len(raw)
        v4tail == n0 >= 1 /\ Contains(raw[n0], <<".">>)
        \* the dotted quad stands for two groups
        parts == IF v4tail
                 THEN SubSeq(raw, 1, n0 - 1) \o <<<<"0">>, <<"0">>>>
                 ELSE raw
        n == Len(parts)
        skips == {i \in 2..(n - 1) : parts[i] = <<>>}
        skip == CHOOSE i \in skips : TRUE
        hi == IF parts[1] = <<>> THEN skip - 2 ELSE skip - 1
        lo == IF parts[n] = <<>> THEN n - skip - 1 ELSE n - skip
        hextets == {i \in 1..n : ~(skips # {} /\ (i = skip
                                       \/ (i = 1 /\ parts[1] = <<>>)
                                       \/ (i = n /\ parts[n] = <<>>)))}
    IN  /\ n0 >= 3
        /\ (v4tail => ValidIPv4(raw[n0]))
        /\ n <= 9
        /\ Cardinality(skips) <= 1
        /\ IF skips # {}
           THEN /\ (parts[1] = <<>> => skip = 2)
                /\ (parts[n] = <<>> => skip = n - 1)
                /\ 8 - (hi + lo) >= 1
           ELSE n = 8 /\ parts[1] # <<>> /\ parts[n] # <<>>
        /\ \A i \in hextets : ValidHextet(parts[i])
\* IPv6Address._split_scope_id: str.partition('%'); with a '%', the scope id
\* after the first one is non-empty and holds no other '%'
ValidScopeId(s) ==
    LET marks == SepPositions(s, "%")
    IN  marks # {} => (Cardinality(marks) = 1 /\ s[Len(s)] # "%")
\* the address before the scope id
ScopedAddress(s) ==
    LET marks == SepPositions(s, "%")
    IN  IF marks = {}
        THEN s
        ELSE SubSeq(s, 1, (CHOOSE i \in marks : \A j \in marks : i <= j) - 1)
\* IPv6Address(str): no '/', an optional scope id, then the groups
ValidIPv6(s) ==
    /\ ~Contains(s, <<"/">>)
    /\ ValidScopeId(s)
    /\ ValidIPv6Groups(ScopedAddress(s))

\* a dotted quad that is a netmask: ones, then zeros
MaskOctets == {0, 128, 192, 224, 240, 248, 252, 254, 255}
IsNetmaskOctets(o) ==
    \E k \in 1..4 :
        /\ \A i \in 1..(k - 1) : o[i] = 255
        /\ o[k] \in MaskOctets
        /\ \A i \in (k + 1)..4 : o[i] = 0
\* IPv4 _make_netmask: a prefix length 0..32, or a netmask or hostmask
ValidIPv4Prefix(p) ==
    \/ AllDigits(p) /\ DecimalValue(p) <= 32
    \/ /\ ~AllDigits(p)
       /\ ValidIPv4(p)
       /\ LET parts == Split(p, ".")
              o == [i \in 1..4 |-> DecimalValue(parts[i])]
              inv == [i \in 1..4 |-> 255 - o[i]]
          IN  IsNetmaskOctets(o) \/ IsNetmaskOctets(inv)
\* IPv6 _make_netmask: a prefix length 0..128
ValidIPv6Prefix(p) == AllDigits(p) /\ DecimalValue(p) <= 128

ValidIPv4Network(s) ==
    LET parts == Split(s, "/")
    IN  /\ Len(parts) <= 2
        /\ ValidIPv4(parts[1])
        /\ (Len(parts) = 2 => ValidIPv4Prefix(parts[2]))
ValidIPv6Network(s) ==
    LET parts == Split(s, "/")
    IN  /\ Len(parts) <= 2
        /\ ValidIPv6(parts[1])
        /\ (Len(parts) = 2 => ValidIPv6Prefix(parts[2]))

\* validate_ip_address(ip_str): ip_address() raises no ValueError
validate_ip_address(ip_str) == ValidIPv4(ip_str) \/ ValidIPv6(ip_str)
\* validate_ip_network(network_str): ip_network(strict=False) raises none;
\* host bits below the prefix are accepted
validate_ip_network(network_str) ==
    ValidIPv4Network(network_str) \/ ValidIPv6Network(network_str)

(***************************************************************************)
(* Sample string values of inventory fields.                               *)
(***************************************************************************)
\* '/usr/bin/python3'
S_interp ==
    <<"/", "u", "s", "r", "/", "b", "i", "n", "/", "p", "y", "t", "h", "o", "n", "3">>
\* '10.0.0.0/24'
S_net_ok ==
    <<"1", "0", ".", "0", ".", "0", ".", "0", "/", "2", "4">>
\* '10.0.0.5/24': host bits set, a network under strict=False
S_net_hostbits ==
    <<"1", "0", ".", "0", ".", "0", ".", "5", "/", "2", "4">>
\* '10.0.0.0/99'
S_net_bad ==
    <<"1", "0", ".", "0", ".", "0", ".", "0", "/", "9", "9">>
\* '10.0.0.1'
S_ip_gw ==
    <<"1", "0", ".", "0", ".", "0", ".", "1">>
\* '10.0.0.100'
S_ip_vip ==
    <<"1", "0", ".", "0", ".", "0", ".", "1", "0", "0">>
\* '999.1.1.1'
S_ip_bad ==
    <<"9", "9", "9", ".", "1", ".", "1", ".", "1">>
\* 'fd00::1'
S_ip_v6 ==
    <<"f", "d", "0", "0", ":", ":", "1">>
\* '192.168.1.10'
S_ip_int ==
    <<"1", "9", "2", ".", "1", "6", "8", ".", "1", ".", "1", "0">>
\* '172.16.0.5'
S_ip_mgmt ==
    <<"1", "7", "2", ".", "1", "6", ".", "0", ".", "5">>
\* '172.16.1.5'
S_ip_data ==
    <<"1", "7", "2", ".", "1", "6", ".", "1", ".", "5">>
\* 'ubuntu'
S_user ==
    <<"u", "b", "u", "n", "t", "u">>
\* '~/.ssh/gcp_rke2_key'
S_keyfile ==
    <<"~", "/", ".", "s", "s", "h", "/", "g", "c", "p", "_", "r", "k", "e", "2", "_", "k", "e", "y">>
\* 'node-01'
S_hostname ==
    <<"n", "o", "d", "e", "-", "0", "1">>
\* '<BASTION_IP>'
S_ph_bastion_ip ==
    <<"<", "B", "A", "S", "T", "I", "O", "N", "_", "I", "P", ">">>
\* '<MASTER1_IP>'
S_ph_master_ip ==
    <<"<", "M", "A", "S", "T", "E", "R", "1", "_", "I", "P", ">">>
\* '<MASTER۱۲_HOSTNAME>', the digits being U+06F1 and U+06F2
S_ph_master_hostname ==
    <<"<", "M", "A", "S", "T", "E", "R", "۱", "۲", "_", "H", "O", "S", "T", "N", "A", "M", "E", ">">>
\* '<SSH_USER>@<BASTION_IP>': matches two patterns
S_ph_user_at_bastion ==
    <<"<", "S", "S", "H", "_", "U", "S", "E", "R", ">", "@", "<", "B", "A", "S", "T", "I", "O", "N", "_", "I", "P", ">">>

(***************************************************************************)
(* check_inventory.py: constants.                                          *)
(***************************************************************************)
REQUIRED_GROUPS == <<"bastion", "masters", "workers">>

REQUIRED_HOST_FIELDS ==
    [bastion |-> <<"ansible_host", "ansible_hostname", "ansible_user",
                   "ansible_ssh_private_key_file", "internal_ip">>,
     master |-> <<"ansible_host", "ansible_hostname", "ansible_user",
                  "ansible_ssh_private_key_file">>,
     worker |-> <<"ansible_host", "ansible_hostname", "ansible_user",
                  "ansible_ssh_private_key_file", "mgmt_ip", "prod_data_ip">>]

REQUIRED_VARS ==
    <<"ansible_python_interpreter", "control_vlan_network",
      "control_vlan_gateway", "data_vlan_network", "data_vlan_gateway",
      "lb_vip_control", "lb_vip_data">>

\* the concatenation of a sequence of sequences
RECURSIVE Flatten(_)
Flatten(ss) == IF ss = <<>> THEN <<>> ELSE Head(ss) \o Flatten(Tail(ss))

(***************************************************************************)
(* check_inventory.py: the placeholder scanner.                            *)
(***************************************************************************)
\* the patterns found in a value, in the order of PLACEHOLDER_PATTERNS;
\* a value that is no string has none
check_placeholder(value) ==
    IF ~IsStr(value)
    THEN <<>>
    ELSE SelectSeq(PLACEHOLDER_PATTERNS, LAMBDA pattern : ReSearch(pattern, value.s))

\* the records find_placeholders(data, path) appends to `found`: those of
\* the entries (of a mapping) or items (of a sequence) from the i-th on
RECURSIVE find_placeholders_from(_, _, _)
find_placeholders_from(data, path, i) ==
    IF IsMap(data) /\ i <= Len(data.kv)
    THEN LET key == data.kv[i][1]
             value == data.kv[i][2]
             current_path == IF path # "" THEN path \o "." \o key ELSE key
             placeholders == check_placeholder(value)
         IN  (IF placeholders # <<>>
              THEN <<[path |-> current_path, value |-> value.s,
                      placeholders |-> placeholders]>>
              ELSE find_placeholders_from(value, current_path, 1))
             \o find_placeholders_from(data, path, i + 1)
    ELSE IF IsList(data) /\ i <= Len(data.kv)
    THEN LET item == data.kv[i]
             index == "[" \o ToString(i - 1) \o "]"
             current_path == IF path # "" THEN path \o index ELSE index
         IN  find_placeholders_from(item, current_path, 1)
             \o find_placeholders_from(data, path, i + 1)
    ELSE <<>>

find_placeholders(data) == find_placeholders_from(data, "", 1)

(***************************************************************************)
(* check_inventory.py: the structural validator.  A loop of the code is a  *)
(* recursion over the index of the sequence it walks.                      *)
(***************************************************************************)
\* one error per required variable missing from vars_section, in the
\* order of REQUIRED_VARS, from the i-th on; `var not in None` raises
RECURSIVE missing_var_errors(_, _)
missing_var_errors(vars_section, i) ==
    IF i > Len(REQUIRED_VARS)
    THEN Returned(<<>>, <<>>)
    ELSE IF IsNull(vars_section)
    THEN Raised("TypeError")
    ELSE Then(Returned(IF ~In(REQUIRED_VARS[i], vars_section)
                       THEN <<"Missing required variable: " \o REQUIRED_VARS[i]>>
                       ELSE <<>>,
                       <<>>),
              missing_var_errors(vars_section, i + 1))

\* "Check required vars"; all_section['vars'] raises unless all_section is
\* a dict
vars_errors(all_section) ==
    IF IsNull(all_section)
    THEN Raised("TypeError")
    ELSE IF ~In("vars", all_section)
    THEN Returned(<<"Missing 'vars' section in 'all'">>, <<>>)
    ELSE IF ~IsMap(all_section)
    THEN Raised("TypeError")
    ELSE missing_var_errors(Get(all_section, "vars"), 1)

\* the host type of a required group
host_type_of(group) ==
    CASE group = "bastion" -> "bastion"
      [] group = "masters" -> "master"
      [] group = "workers" -> "worker"

\* one error per required field missing from one host, from the i-th
\* required field on; `field not in None` raises
RECURSIVE host_errors(_, _, _, _)
host_errors(group, host_name, host_vars, i) ==
    IF i > Len(REQUIRED_HOST_FIELDS[host_type_of(group)])
    THEN Returned(<<>>, <<>>)
    ELSE IF IsNull(host_vars)
    THEN Raised("TypeError")
    ELSE Then(Returned(IF ~In(REQUIRED_HOST_FIELDS[host_type_of(group)][i], host_vars)
                       THEN <<"Host '" \o host_name \o "' (" \o group
                                \o ") missing required field: "
                                \o REQUIRED_HOST_FIELDS[host_type_of(group)][i]>>
                       ELSE <<>>,
                       <<>>),
              host_errors(group, host_name, host_vars, i + 1))

\* "Validate each host": the errors of the hosts of a group from the h-th
\* on; hosts.items() raises unless hosts is a dict
RECURSIVE hosts_errors(_, _, _)
hosts_errors(group, hosts, h) ==
    IF ~IsMap(hosts)
    THEN Raised("AttributeError")
    ELSE IF h > Len(hosts.kv)
    THEN Returned(<<>>, <<>>)
    ELSE Then(host_errors(group, hosts.kv[h][1], hosts.kv[h][2], 1),
              hosts_errors(group, hosts, h + 1))

\* "Check hosts" of one group section
group_section_findings(group, group_section) ==
    IF IsNull(group_section)
    THEN Raised("TypeError")
    ELSE IF ~In("hosts", group_section)
    THEN Returned(<<"Missing 'hosts' section in group '" \o group \o "'">>, <<>>)
    ELSE IF ~IsMap(group_section)
    THEN Raised("TypeError")
    ELSE IF ~Truthy(Get(group_section, "hosts"))
    THEN Returned(<<>>, <<"Group '" \o group \o "' has no hosts defined">>)
    ELSE hosts_errors(group, Get(group_section, "hosts"), 1)

\* the errors and warnings of one required group (one pass of the loop
\* over REQUIRED_GROUPS)
group_findings(children, group) ==
    IF IsNull(children)
    THEN Raised("TypeError")
    ELSE IF ~In(group, children)
    THEN Returned(<<"Missing required group: " \o group>>, <<>>)
    ELSE IF ~IsMap(children)
    THEN Raised("TypeError")
    ELSE group_section_findings(group, Get(children, group))

\* the loop over REQUIRED_GROUPS from the g-th group on
RECURSIVE groups_findings(_, _)
groups_findings(children, g) ==
    IF g > Len(REQUIRED_GROUPS)
    THEN Returned(<<>>, <<>>)
    ELSE Then(group_findings(children, REQUIRED_GROUPS[g]),
              groups_findings(children, g + 1))

\* "Check required groups"; all_section['children'] raises unless
\* all_section is a dict
children_findings(all_section) ==
    IF IsNull(all_section)
    THEN Raised("TypeError")
    ELSE IF ~In("children", all_section)
    THEN Returned(<<"Missing 'children' section in 'all'">>, <<>>)
    ELSE IF ~IsMap(all_section)
    THEN Raised("TypeError")
    ELSE groups_findings(Get(all_section, "children"), 1)

\* validate_inventory_structure(inventory): the (errors, warnings) it
\* returns, or the exception it raises; inventory['all'] raises unless
\* inventory is a dict
validate_inventory_structure(inventory) ==
    IF IsNull(inventory)
    THEN Raised("TypeError")
    ELSE IF ~In("all", inventory)
    THEN Returned(<<"Missing 'all' section at top level">>, <<>>)
    ELSE IF ~IsMap(inventory)
    THEN Raised("TypeError")
    ELSE Then(vars_errors(Get(inventory, "all")),
              children_findings(Get(inventory, "all")))

(***************************************************************************)
(* check_inventory.py: the network field validator.  An error is the pair  *)
(* <<message up to the value, the offending value>>.                       *)
(***************************************************************************)
network_vars == <<"control_vlan_network", "data_vlan_network">>
ip_vars ==
    <<"control_vlan_gateway", "data_vlan_gateway", "lb_vip_control", "lb_vip_data">>
host_ip_fields == <<"ansible_host", "internal_ip", "mgmt_ip", "prod_data_ip">>

\* "Validate network vars", from the i-th of network_vars on;
\* `var in None` raises, and so does vars_section[var] on a str or a list
RECURSIVE network_var_errors(_, _)
network_var_errors(vars_section, i) ==
    IF i > Len(network_vars)
    THEN Returned(<<>>, <<>>)
    ELSE IF IsNull(vars_section)
    THEN Raised("TypeError")
    ELSE IF In(network_vars[i], vars_section) /\ ~IsMap(vars_section)
    THEN Raised("TypeError")
    ELSE Then(Returned(IF /\ HasKey(vars_section, network_vars[i])
                          /\ IsStr(Get(vars_section, network_vars[i]))
                          /\ ~validate_ip_network(Get(vars_section, network_vars[i]).s)
                       THEN <<<<"Invalid network format in " \o network_vars[i] \o ": ",
                                Get(vars_section, network_vars[i]).s>>>>
                       ELSE <<>>,
                       <<>>),
              network_var_errors(vars_section, i + 1))

\* "Validate gateway and VIP vars", from the i-th of ip_vars on
RECURSIVE ip_var_errors(_, _)
ip_var_errors(vars_section, i) ==
    IF i > Len(ip_vars)
    THEN Returned(<<>>, <<>>)
    ELSE IF IsNull(vars_section)
    THEN Raised("TypeError")
    ELSE IF In(ip_vars[i], vars_section) /\ ~IsMap(vars_section)
    THEN Raised("TypeError")
    ELSE Then(Returned(IF /\ HasKey(vars_section, ip_vars[i])
                          /\ IsStr(Get(vars_section, ip_vars[i]))
                          /\ ~validate_ip_address(Get(vars_section, ip_vars[i]).s)
                       THEN <<<<"Invalid IP address format in " \o ip_vars[i] \o ": ",
                                Get(vars_section, ip_vars[i]).s>>>>
                       ELSE <<>>,
                       <<>>),
              ip_var_errors(vars_section, i + 1))

\* the errors of one host: ansible_host, internal_ip, mgmt_ip, prod_data_ip,
\* from the i-th of these fields on
RECURSIVE host_ip_errors(_, _, _)
host_ip_errors(host_name, host_vars, i) ==
    IF i > Len(host_ip_fields)
    THEN Returned(<<>>, <<>>)
    ELSE IF IsNull(host_vars)
    THEN Raised("TypeError")
    ELSE IF In(host_ip_fields[i], host_vars) /\ ~IsMap(host_vars)
    THEN Raised("TypeError")
    ELSE Then(Returned(IF /\ HasKey(host_vars, host_ip_fields[i])
                          /\ IsStr(Get(host_vars, host_ip_fields[i]))
                          /\ ~validate_ip_address(Get(host_vars, host_ip_fields[i]).s)
                       THEN <<<<"Invalid IP address in " \o host_name \o "."
                                  \o host_ip_fields[i] \o ": ",
                                Get(host_vars, host_ip_fields[i]).s>>>>
                       ELSE <<>>,
                       <<>>),
              host_ip_errors(host_name, host_vars, i + 1))

\* the errors of the hosts of one group from the h-th host on;
\* group_section['hosts'].items() raises unless the hosts are a dict
RECURSIVE hosts_ip_errors(_, _)
hosts_ip_errors(hosts, h) ==
    IF ~IsMap(hosts)
    THEN Raised("AttributeError")
    ELSE IF h > Len(hosts.kv)
    THEN Returned(<<>>, <<>>)
    ELSE Then(host_ip_errors(hosts.kv[h][1], hosts.kv[h][2], 1),
              hosts_ip_errors(hosts, h + 1))

\* one pass of the loop over children.items(): a group without 'hosts' is
\* passed over
group_ip_errors(group_section) ==
    IF IsNull(group_section)
    THEN Raised("TypeError")
    ELSE IF ~In("hosts", group_section)
    THEN Returned(<<>>, <<>>)
    ELSE IF ~IsMap(group_section)
    THEN Raised("TypeError")
    ELSE hosts_ip_errors(Get(group_section, "hosts"), 1)

\* "Validate host IPs": the loop over children.items() from the g-th group
\* on; children.items() raises unless children is a dict
RECURSIVE groups_ip_errors(_, _)
groups_ip_errors(children, g) ==
    IF ~IsMap(children)
    THEN Raised("AttributeError")
    ELSE IF g > Len(children.kv)
    THEN Returned(<<>>, <<>>)
    ELSE Then(group_ip_errors(children.kv[g][2]), groups_ip_errors(children, g + 1))

\* the checks of validate_ip_addresses on all_section; all_section.get
\* raises unless all_section is a dict
section_ip_errors(all_section) ==
    IF ~IsMap(all_section)
    THEN Raised("AttributeError")
    ELSE Then(network_var_errors(GetOrEmpty(all_section, "vars"), 1),
              Then(ip_var_errors(GetOrEmpty(all_section, "vars"), 1),
                   groups_ip_errors(GetOrEmpty(all_section, "children"), 1)))

\* validate_ip_addresses(inventory): the (errors, warnings) it returns, or
\* the exception it raises; inventory.get raises unless inventory is a dict
validate_ip_addresses(inventory) ==
    IF ~IsMap(inventory)
    THEN Raised("AttributeError")
    ELSE section_ip_errors(GetOrEmpty(inventory, "all"))

(***************************************************************************)
(* The inventory documents the runs are given.  The baseline is the fully  *)
(* valid inventory with one host per group; a document deviates from it by *)
(* defects, each counting 1 (an added host counts 1 too), MaxDefects at    *)
(* most in all.                                                            *)
(***************************************************************************)
\* the valid value of a variable of all.vars
GoodVarValue ==
    [ansible_python_interpreter |-> Str(S_interp),
     control_vlan_network |-> Str(S_net_ok),
     control_vlan_gateway |-> Str(S_ip_gw),
     data_vlan_network |-> Str(S_net_hostbits),
     data_vlan_gateway |-> Str(S_ip_v6),
     lb_vip_control |-> Str(S_ip_vip),
     lb_vip_data |-> Str(S_ip_vip)]

\* the defects of all.vars: <<kind, variable>>
VarDefects ==
    { <<"absent", "ansible_python_interpreter">>, <<"absent", "control_vlan_network">>,
      <<"absent", "lb_vip_data">>,
      <<"bad", "control_vlan_network">>, <<"bad", "data_vlan_gateway">>,
      <<"bad", "lb_vip_control">>,
      <<"null", "data_vlan_gateway">>,
      <<"placeholder", "lb_vip_data">>,
      <<"extra", "ntp_servers">>, <<"extra", "dns_servers">>, <<"extra", "extra_hosts">> }

\* a value that is not what the variable or field should hold
DefectValue(kind, name) ==
    CASE kind = "bad" /\ name \in {"control_vlan_network", "data_vlan_network"} -> Str(S_net_bad)
      [] kind = "bad" /\ name = "control_vlan_gateway" -> Str(S_net_ok)
      [] kind = "bad" -> Str(S_ip_bad)
      [] kind = "null" -> Null
      [] kind = "placeholder" /\ name = "ansible_user" -> Str(S_ph_user_at_bastion)
      [] kind = "placeholder" /\ name = "ansible_host" -> Str(S_ph_master_ip)
      [] kind = "placeholder" /\ name = "ansible_hostname" -> Str(S_ph_master_hostname)
      [] kind = "placeholder" -> Str(S_ph_bastion_ip)

\* a variable outside the required set, holding a sequence
ExtraVarValue(name) ==
    CASE name = "ntp_servers" -> List(<<Str(S_ip_gw), Str(S_ph_bastion_ip)>>)
      [] name = "dns_servers" -> List(<<Str(S_ip_gw), Str(S_ip_bad)>>)
      [] name = "extra_hosts" ->
             List(<<Map(<< <<"name", Str(S_hostname)>>, <<"addr", Str(S_ph_master_ip)>> >>)>>)

\* the sets of defects all.vars may carry: no variable named twice
VarDefectSets ==
    {D \in SUBSET VarDefects :
        /\ Cardinality(D) <= MaxDefects
        /\ \A d1, d2 \in D : d1[2] = d2[2] => d1 = d2}
\* the choice that leaves all.vars out of the document
NoVars == {<<"absent", "vars">>}

\* the pairs of a mapping built over a sequence of names: a name with an
\* "absent" defect is left out, one with another defect holds DefectValue
PairsWith(names, D, good) ==
    Flatten([i \in 1..Len(names) |->
        LET name == names[i]
            ds == {d \in D : d[2] = name}
            d == CHOOSE x \in ds : TRUE
        IN  IF ds = {}
            THEN << <<name, good[name]>> >>
            ELSE IF d[1] = "absent"
            THEN <<>>
            ELSE << <<name, DefectValue(d[1], name)>> >>])

ExtraVarNames == <<"ntp_servers", "dns_servers", "extra_hosts">>
VarsSection(D) ==
    Map(PairsWith(REQUIRED_VARS, D, GoodVarValue) \o
        Flatten([i \in 1..Len(ExtraVarNames) |->
            IF <<"extra", ExtraVarNames[i]>> \in D
            THEN << <<ExtraVarNames[i], ExtraVarValue(ExtraVarNames[i])>> >>
            ELSE <<>>]))

\* the name and address of the i-th host of a group
HostPrefix(group) ==
    CASE group = "bastion" -> "bastion"
      [] group = "masters" -> "master"
      [] group = "workers" -> "worker"
HostName(group, i) == HostPrefix(group) \o ToString(i)
GroupDigit(group) ==
    CASE group = "bastion" -> "0" [] group = "masters" -> "1" [] group = "workers" -> "2"
\* '10.0.<group>.<i>'
HostIp(group, i) ==
    <<"1", "0", ".", "0", ".", GroupDigit(group), ".", ToString(i)>>

\* the defect one host may carry, "none" for the valid host
HostDefects(group) ==
    { <<"none", "">>, <<"absent", "ansible_host">>, <<"absent", "ansible_ssh_private_key_file">>,
      <<"bad", "ansible_host">>, <<"null", "ansible_host">>,
      <<"placeholder", "ansible_host">>, <<"placeholder", "ansible_user">>,
      <<"placeholder", "ansible_hostname">> }
    \cup (IF group = "bastion" THEN {<<"bad", "internal_ip">>} ELSE {})
    \cup (IF group = "workers"
          THEN {<<"bad", "mgmt_ip">>, <<"absent", "prod_data_ip">>}
          ELSE {})

\* the host-variable mapping of the i-th host of a group
HostVars(group, i, d) ==
    LET good == [ansible_host |-> Str(HostIp(group, i)),
                 ansible_hostname |-> Str(S_hostname),
                 ansible_user |-> Str(S_user),
                 ansible_ssh_private_key_file |-> Str(S_keyfile),
                 internal_ip |-> Str(S_ip_int),
                 mgmt_ip |-> Str(S_ip_mgmt),
                 prod_data_ip |-> Str(S_ip_data)]
    IN  Map(PairsWith(REQUIRED_HOST_FIELDS[host_type_of(group)],
                      IF d[1] = "none" THEN {} ELSE {d}, good))

\* a group as generated: its kind and, for kind "hosts", the defect of each
\* host; w is the number of defects it counts
ShapesOver(defects, maxHosts) ==
    {[kind |-> k, ds |-> <<>>, w |-> 1] : k \in {"absent", "nohosts", "null", "empty"}}
    \cup
    UNION {
        {[kind |-> "hosts", ds |-> ds,
          w |-> (n - 1) + Cardinality({i \in 1..n : ds[i][1] # "none"})] :
            ds \in [1..n -> defects]}
        : n \in 1..maxHosts}
GroupShapes(group, maxHosts) == ShapesOver(HostDefects(group), maxHosts)

\* the <<key, value>> pairs a group contributes to all.children
GroupPairs(group, shape) ==
    CASE shape.kind = "absent" -> <<>>
      [] shape.kind = "nohosts" -> << <<group, Map(<<>>)>> >>
      [] shape.kind = "null" -> << <<group, Map(<< <<"hosts", Null>> >>)>> >>
      [] shape.kind = "empty" -> << <<group, Map(<< <<"hosts", Map(<<>>)>> >>)>> >>
      [] shape.kind = "hosts" ->
             << <<group, Map(<< <<"hosts",
                    Map([i \in 1..Len(shape.ds) |->
                            <<HostName(group, i), HostVars(group, i, shape.ds[i])>>])>> >>)>> >>

\* the document: top |-> the key of the top-level section ("all", or another
\* key for a document without 'all'), varsD |-> NoVars or a set of
\* VarDefectSets, children |-> whether all.children exists, b, m, w |-> the
\* shapes of the three groups
Document(top, varsD, children, b, m, w) ==
    Map(<< <<top,
        Map((IF varsD = NoVars THEN <<>> ELSE << <<"vars", VarsSection(varsD)>> >>)
            \o
            (IF children
             THEN << <<"children",
                       Map(GroupPairs("bastion", b) \o GroupPairs("masters", m)
                           \o GroupPairs("workers", w))>> >>
             ELSE <<>>))>> >>)

BaselineShape == [kind |-> "hosts", ds |-> << <<"none", "">> >>, w |-> 0]

\* the shapes of each group within the bounds
BastionShapes == {x \in GroupShapes("bastion", MaxHosts) : x.w <= MaxDefects}
MastersShapes == {x \in GroupShapes("masters", MaxHosts) : x.w <= MaxDefects}
WorkersShapes == {x \in GroupShapes("workers", MaxHosts) : x.w <= MaxDefects}
VarsChoices == {NoVars} \cup VarDefectSets

BaselineDocument ==
    Document("all", {}, TRUE, BaselineShape, BaselineShape, BaselineShape)

\* the inventory file: whether the path exists, whether open() and read()
\* succeed on it, whether its text is YAML, and the document it parses to
ReadableFile(doc) ==
    [exists |-> TRUE, readable |-> TRUE, yaml_ok |-> TRUE, doc |-> doc]
MissingFile ==
    [exists |-> FALSE, readable |-> FALSE, yaml_ok |-> FALSE, doc |-> BaselineDocument]
\* a path that is a directory, or a file whose bytes are no UTF-8 text
UnreadableFile ==
    [exists |-> TRUE, readable |-> FALSE, yaml_ok |-> FALSE, doc |-> BaselineDocument]
MalformedFile ==
    [exists |-> TRUE, readable |-> TRUE, yaml_ok |-> FALSE, doc |-> BaselineDocument]

\* f is a readable file holding one of the documents given to the
\* inventory validator
IsInventoryFile(f) ==
    \E top \in {"all", "inventory"}, children \in BOOLEAN :
      LET w0 == (IF top = "all" THEN 0 ELSE 1) + (IF children THEN 0 ELSE 1)
      IN  \E varsD \in VarsChoices :
            /\ w0 + Cardinality(varsD) <= MaxDefects
            /\ \E b \in (IF children THEN BastionShapes ELSE {BaselineShape}) :
                 /\ w0 + Cardinality(varsD) + b.w <= MaxDefects
                 /\ \E m \in (IF children THEN MastersShapes ELSE {BaselineShape}) :
                      /\ w0 + Cardinality(varsD) + b.w + m.w <= MaxDefects
                      /\ \E w \in (IF children THEN WorkersShapes ELSE {BaselineShape}) :
                           /\ w0 + Cardinality(varsD) + b.w + m.w + w.w <= MaxDefects
                           /\ f = ReadableFile(Document(top, varsD, children, b, m, w))

\* 'lb_vip_data control_vlan_network': a line of text under `vars:`
S_vars_text ==
    <<"l", "b", "_", "v", "i", "p", "_", "d", "a", "t", "a", " ", "c", "o", "n", "t", "r", "o", "l",
      "_", "v", "l", "a", "n", "_", "n", "e", "t", "w", "o", "r", "k">>
\* 'worker1': a host written as the value of `hosts:`
S_host_text == <<"w", "o", "r", "k", "e", "r", "1">>

\* an inventory with the valid bastion and workers and the given all.vars
\* and masters sections
DocumentWith(vars_section, masters) ==
    Map(<< <<"all",
        Map(<< <<"vars", vars_section>>,
               <<"children",
                 Map(GroupPairs("bastion", BaselineShape)
                     \o << <<"masters", masters>> >>
                     \o GroupPairs("workers", BaselineShape))>> >>)>> >>)

\* what yaml.safe_load returns for files that are valid YAML and leave a
\* section unfilled: a key with nothing under it holds None, an empty file
\* is None, a file of dashed items is a list, a line of text is a str
UnfilledDocuments ==
    { Null,
      List(<<Map(<< <<"a", Str(S_ph_bastion_ip)>> >>), List(<<Str(S_ph_master_ip)>>),
             Str(S_hostname)>>),
      Map(<< <<"all", Null>> >>),
      Map(<< <<"all", Map(<< <<"vars", VarsSection({})>>, <<"children", Null>> >>)>> >>),
      DocumentWith(Null, Get(Get(Get(BaselineDocument, "all"), "children"), "masters")),
      DocumentWith(Str(S_vars_text),
                   Get(Get(Get(BaselineDocument, "all"), "children"), "masters")),
      DocumentWith(VarsSection({}), Null),
      DocumentWith(VarsSection({}), Map(<< <<"hosts", Str(S_host_text)>> >>)),
      DocumentWith(VarsSection({}),
                   Map(<< <<"hosts", Map(<< <<"master1", Null>> >>)>> >>)),
      DocumentWith(VarsSection({}),
                   Map(<< <<"hosts",
                          Map(<< <<"master1", HostVars("masters", 1, <<"none", "">>)>>,
                                 <<"master2", Null>> >>)>> >>)) }

(***************************************************************************)
(* check_ssh_config.py: the functions of the SSH trust checker.            *)
(***************************************************************************)
\* 'ssh-ed25519 AAAAC3 admin@bastion\n'
S_pubkey_text ==
    <<"s", "s", "h", "-", "e", "d", "2", "5", "5", "1", "9", " ", "A", "A", "A", "A", "C", "3", " ",
      "a", "d", "m", "i", "n", "@", "b", "a", "s", "t", "i", "o", "n", "\n">>
\* '\n': a public key file holding no key
S_blank_text == <<"\n">>
\* '\x0b\x85\n': one holding a vertical tab and a next-line character
S_control_text == <<"", "", "\n">>
\* what the remote command prints
S_FOUND_nl == <<"F", "O", "U", "N", "D", "\n">>
S_NOT_FOUND_nl == <<"N", "O", "T", "_", "F", "O", "U", "N", "D", "\n">>
S_FOUND == <<"F", "O", "U", "N", "D">>
S_NOT_FOUND == <<"N", "O", "T", "_", "F", "O", "U", "N", "D">>

\* the characters c with c.isspace(), which str.strip() removes: tab, line
\* feed, vertical tab, form feed, carriage return, U+001C to U+001F, space,
\* U+0085, U+00A0 and U+1680 (the others, U+2000 to U+200A, U+2028, U+2029,
\* U+202F, U+205F and U+3000, are no characters of a string here)
WhitespaceChars ==
    {" ", "\n", "\t", "\r", "\f", "", "", "", "", "", "", " ", " "}
\* str.strip()
RECURSIVE Strip(_)
Strip(s) ==
    IF s = <<>>
    THEN s
    ELSE IF s[1] \in WhitespaceChars
    THEN Strip(Tail(s))
    ELSE IF s[Len(s)] \in WhitespaceChars
    THEN Strip(SubSeq(s, 1, Len(s) - 1))
    ELSE s

\* how get_target_hosts ends: with the hosts found, or raising exc
Found(hosts) == [raised |-> FALSE, exc |-> "", hosts |-> hosts]
NotFound(exc) == [raised |-> TRUE, exc |-> exc, hosts |-> <<>>]
\* first a, then b, both appending to the same list of hosts
ThenFound(a, b) ==
    IF a.raised THEN a ELSE IF b.raised THEN b ELSE Found(a.hosts \o b.hosts)

\* the hosts of one group that carry 'ansible_host', from the h-th on;
\* .items() raises unless the hosts are a dict, `'ansible_host' in None`
\* raises, and so does host_vars['ansible_host'] on a str or a list
RECURSIVE group_targets(_, _, _)
group_targets(hosts, type, h) ==
    IF ~IsMap(hosts)
    THEN NotFound("AttributeError")
    ELSE IF h > Len(hosts.kv)
    THEN Found(<<>>)
    ELSE IF IsNull(hosts.kv[h][2])
    THEN NotFound("TypeError")
    ELSE IF In("ansible_host", hosts.kv[h][2]) /\ ~IsMap(hosts.kv[h][2])
    THEN NotFound("TypeError")
    ELSE ThenFound(Found(IF HasKey(hosts.kv[h][2], "ansible_host")
                         THEN <<[name |-> hosts.kv[h][1],
                                 ip |-> Get(hosts.kv[h][2], "ansible_host"),
                                 type |-> type]>>
                         ELSE <<>>),
                   group_targets(hosts, type, h + 1))

\* the part of get_target_hosts for one group of children; children[group]
\* raises unless children is a dict, and .get('hosts', {}) raises unless the
\* group section is one
children_targets(children, group, type) ==
    IF IsNull(children)
    THEN NotFound("TypeError")
    ELSE IF ~In(group, children)
    THEN Found(<<>>)
    ELSE IF ~IsMap(children)
    THEN NotFound("TypeError")
    ELSE IF ~IsMap(Get(children, group))
    THEN NotFound("AttributeError")
    ELSE group_targets(GetOrEmpty(Get(children, group), "hosts"), type, 1)

\* get_target_hosts: the part for one group ("Get masters", "Get workers");
\* .get raises unless inventory and its 'all' section are dicts
targets_of_group(inventory, group, type) ==
    IF ~IsMap(inventory)
    THEN NotFound("AttributeError")
    ELSE IF ~IsMap(GetOrEmpty(inventory, "all"))
    THEN NotFound("AttributeError")
    ELSE children_targets(GetOrEmpty(GetOrEmpty(inventory, "all"), "children"),
                          group, type)

\* get_target_hosts(inventory): masters, then workers
get_target_hosts(inventory) ==
    ThenFound(targets_of_group(inventory, "masters", "master"),
              targets_of_group(inventory, "workers", "worker"))

\* get_public_key_from_private: pub is the '.pub' sibling, [state, text] with
\* state "missing", "unreadable" or "ok"; the result is the stripped text,
\* or None with the lines printed on the error stream
get_public_key_from_private(pub) ==
    IF pub.state = "missing"
    THEN [key |-> <<>>, none |-> TRUE,
          printed |-> <<<<"ERROR: Public key file not found", "">>,
                        <<"Generate it with: ssh-keygen -y -f <private_key> > <private_key>.pub", "">>>>]
    ELSE IF pub.state = "unreadable"
    THEN [key |-> <<>>, none |-> TRUE,
          printed |-> <<<<"ERROR: Failed to read public key file", "">>>>]
    ELSE [key |-> Strip(pub.text), none |-> FALSE, printed |-> <<>>]

\* what subprocess.run gives for a command: it completes with a return
\* code and an output, runs into the timeout, or raises another exception
\* e, and message is str(e)
Completed(returncode, stdout) ==
    [kind |-> "completed", returncode |-> returncode, stdout |-> stdout, message |-> ""]
TimeoutExpired == [kind |-> "timeout", returncode |-> 0, stdout |-> <<>>, message |-> ""]
OSError(message) ==
    [kind |-> "error", returncode |-> 0, stdout |-> <<>>, message |-> message]
\* the program is not on PATH; it is there and may not be executed
FileNotFoundError(program) ==
    OSError("[Errno 2] No such file or directory: '" \o program \o "'")
PermissionError(program) == OSError("[Errno 13] Permission denied: '" \o program \o "'")
\* type(v).__name__ of a value
TypeName(v) ==
    CASE IsNull(v) -> "NoneType" [] IsStr(v) -> "str" [] IsList(v) -> "list"
      [] OTHER -> "dict"
\* an argument of the command is v, which is no string: subprocess.run
\* raises before it starts the program
TypeError(v) ==
    OSError("expected str, bytes or os.PathLike object, not " \o TypeName(v))

\* the outcomes of the ssh command: the key is there, the key is not
\* there, the connection or the authentication failed (ssh returns 255),
\* the timeout, no ssh program, an ssh program without execute permission
SshRuns ==
    {Completed(0, S_FOUND_nl), Completed(0, S_NOT_FOUND_nl), Completed(255, <<>>),
     TimeoutExpired, FileNotFoundError("ssh"), PermissionError("ssh")}

\* check_public_key_in_authorized_keys, given what the ssh command did:
\* [found, error_msg]
check_public_key_in_authorized_keys(result) ==
    IF result.kind = "timeout"
    THEN [found |-> FALSE, error_msg |-> "SSH connection timeout"]
    ELSE IF result.kind = "error"
    THEN [found |-> FALSE, error_msg |-> "Error: " \o result.message]
    ELSE IF result.returncode = 0 /\ Contains(result.stdout, S_FOUND)
    THEN [found |-> TRUE, error_msg |-> "None"]
    ELSE IF result.returncode = 0 /\ Contains(result.stdout, S_NOT_FOUND)
    THEN [found |-> FALSE, error_msg |-> "Public key not found in authorized_keys"]
    ELSE [found |-> FALSE,
          error_msg |-> "SSH connection failed (return code: "
                          \o ToString(result.returncode) \o ")"]

\* what subprocess.run gives for ssh-keygen -F: 0 when the host is found,
\* 1 when it is not
KeygenRuns ==
    {Completed(0, <<>>), Completed(1, <<>>), TimeoutExpired,
     FileNotFoundError("ssh-keygen"), PermissionError("ssh-keygen")}

\* get_host_key_from_known_hosts: result is what ssh-keygen did, and is
\* not looked at when the known_hosts file does not exist
get_host_key_from_known_hosts(known_hosts_exists, result) ==
    IF ~known_hosts_exists
    THEN FALSE
    ELSE IF result.kind = "completed"
    THEN result.returncode = 0
    ELSE FALSE

\* the exit status of the trust checker's final result
verification_status(authorized_keys_ok, known_hosts_ok) ==
    IF authorized_keys_ok /\ known_hosts_ok THEN 0 ELSE 1

\* ' '.join(parts) of a sequence of strings
RECURSIVE Join(_)
Join(parts) ==
    IF parts = <<>>
    THEN <<>>
    ELSE IF Len(parts) = 1
    THEN parts[1]
    ELSE parts[1] \o <<" ">> \o Join(Tail(parts))
\* host_ips = ' '.join([h['ip'] for h in missing_host_keys]): join raises
\* TypeError when an item is no str
host_ips(missing) ==
    IF \E i \in 1..Len(missing) : ~IsStr(missing[i].ip)
    THEN [raised |-> TRUE, exc |-> "TypeError", text |-> <<>>]
    ELSE [raised |-> FALSE, exc |-> "",
          text |-> Join([i \in 1..Len(missing) |-> missing[i].ip.s])]

\* the shapes of the masters and workers groups of the inventories given to
\* the trust checker: what matters there is which hosts carry 'ansible_host'
\* and whether it holds a string (`ansible_host:` with nothing after it is
\* None)
SshShapes ==
    ShapesOver({<<"none", "">>, <<"absent", "ansible_host">>, <<"null", "ansible_host">>},
               MaxTargets)

\* f is a readable file holding one of the inventories given to the trust
\* checker: MaxTargets hosts at most under masters and workers together
IsSshInventoryFile(f) ==
    \E top \in {"all", "inventory"}, children \in BOOLEAN :
      /\ (top = "inventory" => children)
      /\ \E m \in (IF top = "all" /\ children THEN SshShapes ELSE {BaselineShape}) :
           \E w \in (IF top = "all" /\ children THEN SshShapes ELSE {BaselineShape}) :
             /\ Len(m.ds) + Len(w.ds) <= MaxTargets
             /\ f = ReadableFile(Document(top, {}, children, BaselineShape, m, w))

\* the key files and the known_hosts file the trust checker may find
PublicKeyFiles ==
    {[state |-> "missing", text |-> <<>>], [state |-> "unreadable", text |-> <<>>],
     [state |-> "ok", text |-> S_blank_text], [state |-> "ok", text |-> S_control_text],
     [state |-> "ok", text |-> S_pubkey_text]}
FileSystems ==
    [private_key : BOOLEAN, public_key : PublicKeyFiles, known_hosts : BOOLEAN]

(***************************************************************************)
(* State.  Each utility is one process run once; the two share no state,   *)
(* and a specification runs one of them.                                   *)
(***************************************************************************)
VARIABLES
    pc,                 \* the position of main()
    file,               \* the inventory file: [exists, readable, yaml_ok, doc]
    inventory,          \* the loaded document, Null before it is loaded
    out,                \* the lines printed so far
    exit_code,          \* <<>> while running, <<status>> once the process ended
    structure_errors,   \* check_inventory.py main(): its locals
    structure_warnings,
    placeholders,
    ip_errors,
    total_errors,
    fs,                 \* check_ssh_config.py: the key files and known_hosts
    target_hosts,       \* check_ssh_config.py main(): its locals
    public_key,
    idx,                \* the position of the running for loop in target_hosts
    authorized_keys_ok,
    failed_hosts,
    known_hosts_ok,
    missing_host_keys,
    calls               \* the subprocesses run so far: [cmd, ip, result]

common_vars == <<pc, file, inventory, out, exit_code>>
inv_vars ==
    <<structure_errors, structure_warnings, placeholders, ip_errors, total_errors>>
ssh_vars ==
    <<fs, target_hosts, public_key, idx, authorized_keys_ok, failed_hosts,
      known_hosts_ok, missing_host_keys, calls>>
vars == <<common_vars, inv_vars, ssh_vars>>

Running == <<>>
Exited(status) == <<status>>

\* one printed line for each element of a list
Lines(tag, items) == [i \in 1..Len(items) |-> <<tag, items[i]>>]

(***************************************************************************)
(* check_inventory.py: main().                                             *)
(***************************************************************************)
InitInventory ==
    /\ pc = "start"
    /\ \/ IsInventoryFile(file)
       \/ \E doc \in UnfilledDocuments : file = ReadableFile(doc)
       \/ file = MissingFile
       \/ file = UnreadableFile
       \/ file = MalformedFile
    /\ inventory = Null
    /\ out = <<>>
    /\ exit_code = Running
    /\ structure_errors = <<>>
    /\ structure_warnings = <<>>
    /\ placeholders = <<>>
    /\ ip_errors = <<>>
    /\ total_errors = 0
    /\ fs = [private_key |-> FALSE, public_key |-> [state |-> "missing", text |-> <<>>],
             known_hosts |-> FALSE]
    /\ target_hosts = <<>>
    /\ public_key = <<>>
    /\ idx = 1
    /\ authorized_keys_ok = TRUE
    /\ failed_hosts = <<>>
    /\ known_hosts_ok = TRUE
    /\ missing_host_keys = <<>>
    /\ calls = <<>>

\* load_inventory(): a missing file, any exception of open() or read() and
\* malformed YAML end the process with status 1, each with its message;
\* otherwise the document is returned
LoadInventory ==
    /\ pc = "start"
    /\ IF ~file.exists
       THEN /\ out' = out \o <<<<"ERROR: Inventory file not found", "">>>>
            /\ exit_code' = Exited(1)
            /\ pc' = "exited"
            /\ UNCHANGED inventory
       ELSE IF ~file.readable
       THEN /\ out' = out \o <<<<"ERROR: Failed to load inventory file", "">>>>
            /\ exit_code' = Exited(1)
            /\ pc' = "exited"
            /\ UNCHANGED inventory
       ELSE IF ~file.yaml_ok
       THEN /\ out' = out \o <<<<"ERROR: Invalid YAML syntax", "">>>>
            /\ exit_code' = Exited(1)
            /\ pc' = "exited"
            /\ UNCHANGED inventory
       ELSE /\ inventory' = file.doc
            /\ out' = out \o <<<<"YAML syntax is valid", "">>>>
            /\ pc' = "loaded"
            /\ UNCHANGED exit_code
    /\ UNCHANGED <<file, inv_vars, ssh_vars>>

\* main(): "Check structure"; an exception validate_inventory_structure
\* raises is caught nowhere, so the interpreter prints the traceback and
\* the process ends with status 1
CheckStructure ==
    /\ pc = "loaded"
    /\ IF validate_inventory_structure(inventory).raised
       THEN /\ pc' = "crashed"
            /\ exit_code' = Exited(1)
            /\ out' = out \o <<<<"Traceback", validate_inventory_structure(inventory).exc>>>>
            /\ UNCHANGED <<structure_errors, structure_warnings>>
       ELSE /\ structure_errors' = validate_inventory_structure(inventory).errors
            /\ structure_warnings' = validate_inventory_structure(inventory).warnings
            /\ out' = out
                 \o (IF structure_errors' # <<>>
                     THEN <<<<"Structure validation failed:", "">>>>
                          \o Lines("ERROR", structure_errors')
                     ELSE <<<<"Inventory structure is valid", "">>>>)
                 \o (IF structure_warnings' # <<>>
                     THEN <<<<"Warnings:", "">>>> \o Lines("WARNING", structure_warnings')
                     ELSE <<>>)
            /\ pc' = "structure_checked"
            /\ UNCHANGED exit_code
    /\ UNCHANGED <<file, inventory, placeholders, ip_errors, total_errors, ssh_vars>>

\* main(): "Check for placeholders"
CheckPlaceholders ==
    /\ pc = "structure_checked"
    /\ placeholders' = find_placeholders(inventory)
    /\ out' = out
         \o (IF placeholders' # <<>>
             THEN <<<<"Found placeholder values that need to be replaced:", "">>>>
                  \o [i \in 1..Len(placeholders') |->
                         <<"PLACEHOLDER", <<placeholders'[i].path, placeholders'[i].value>>>>]
             ELSE <<<<"No placeholder values found", "">>>>)
    /\ pc' = "placeholders_checked"
    /\ UNCHANGED <<file, inventory, exit_code, structure_errors, structure_warnings,
                   ip_errors, total_errors, ssh_vars>>

\* main(): "Validate IP addresses (only if no placeholders found)"; an
\* exception validate_ip_addresses raises is caught nowhere, so the
\* interpreter prints the traceback and the process ends with status 1
CheckIpAddresses ==
    /\ pc = "placeholders_checked"
    /\ IF placeholders # <<>>
       THEN /\ pc' = "ip_checked"
            /\ UNCHANGED <<ip_errors, out, exit_code>>
       ELSE IF validate_ip_addresses(inventory).raised
       THEN /\ pc' = "crashed"
            /\ exit_code' = Exited(1)
            /\ out' = out \o <<<<"Traceback", validate_ip_addresses(inventory).exc>>>>
            /\ UNCHANGED ip_errors
       ELSE /\ pc' = "ip_checked"
            /\ ip_errors' = validate_ip_addresses(inventory).errors
            /\ out' = out
                 \o (IF ip_errors' # <<>>
                     THEN <<<<"IP address validation failed:", "">>>>
                          \o Lines("ERROR", ip_errors')
                     ELSE <<<<"IP address formats are valid", "">>>>)
            /\ UNCHANGED exit_code
    /\ UNCHANGED <<file, inventory, structure_errors, structure_warnings,
                   placeholders, total_errors, ssh_vars>>

\* the count of the summary: the structural errors plus, when no
\* placeholder was found, the errors of a second validate_ip_addresses call
summary_total(errors, found, inv) ==
    Len(errors) + (IF found = <<>> THEN Len(validate_ip_addresses(inv).errors) ELSE 0)

\* the exit status of the summary
summary_status(total, found) ==
    IF total = 0 /\ found = <<>> THEN 0 ELSE 1

\* main(): "Summary"
Summary ==
    /\ pc = "ip_checked"
    /\ total_errors' = summary_total(structure_errors, placeholders, inventory)
    /\ exit_code' = Exited(summary_status(total_errors', placeholders))
    /\ out' = out \o
         <<IF total_errors' = 0 /\ placeholders = <<>>
           THEN <<"Inventory file is valid and ready to use!", "">>
           ELSE IF placeholders # <<>>
           THEN <<"Inventory file has placeholder values that need to be replaced.", "">>
           ELSE <<"Inventory file has error(s) that need to be fixed:", ToString(total_errors')>>>>
    /\ pc' = "exited"
    /\ UNCHANGED <<file, inventory, structure_errors, structure_warnings,
                   placeholders, ip_errors, ssh_vars>>

NextInventory ==
    \/ LoadInventory
    \/ CheckStructure
    \/ CheckPlaceholders
    \/ CheckIpAddresses
    \/ Summary

(***************************************************************************)
(* check_ssh_config.py: main().                                            *)
(***************************************************************************)
InitSsh ==
    /\ pc = "start"
    /\ \/ IsSshInventoryFile(file)
       \/ \E doc \in UnfilledDocuments : file = ReadableFile(doc)
       \/ file = MissingFile
       \/ file = UnreadableFile
       \/ file = MalformedFile
    /\ fs \in FileSystems
    /\ inventory = Null
    /\ out = <<>>
    /\ exit_code = Running
    /\ structure_errors = <<>>
    /\ structure_warnings = <<>>
    /\ placeholders = <<>>
    /\ ip_errors = <<>>
    /\ total_errors = 0
    /\ target_hosts = <<>>
    /\ public_key = <<>>
    /\ idx = 1
    /\ authorized_keys_ok = TRUE
    /\ failed_hosts = <<>>
    /\ known_hosts_ok = TRUE
    /\ missing_host_keys = <<>>
    /\ calls = <<>>

\* "Validate private key exists"
CheckPrivateKey ==
    /\ pc = "start"
    /\ IF ~fs.private_key
       THEN /\ out' = out \o <<<<"ERROR: Private key file not found", "">>>>
            /\ exit_code' = Exited(1)
            /\ pc' = "exited"
       ELSE /\ pc' = "key_checked"
            /\ UNCHANGED <<out, exit_code>>
    /\ UNCHANGED <<file, inventory, inv_vars, ssh_vars>>

\* "Load inventory": load_inventory() ends the process with status 1 on any
\* exception, a missing file and malformed YAML alike
SshLoadInventory ==
    /\ pc = "key_checked"
    /\ IF ~file.exists \/ ~file.readable \/ ~file.yaml_ok
       THEN /\ out' = out \o <<<<"Loading inventory", "">>,
                              <<"ERROR: Failed to load inventory file", "">>>>
            /\ exit_code' = Exited(1)
            /\ pc' = "exited"
            /\ UNCHANGED inventory
       ELSE /\ inventory' = file.doc
            /\ out' = out \o <<<<"Loading inventory", "">>>>
            /\ pc' = "loaded"
            /\ UNCHANGED exit_code
    /\ UNCHANGED <<file, inv_vars, ssh_vars>>

\* "Get target hosts"; an exception get_target_hosts raises is caught
\* nowhere, so the process ends with the traceback and status 1
GetTargetHosts ==
    /\ pc = "loaded"
    /\ IF get_target_hosts(inventory).raised
       THEN /\ out' = out \o <<<<"Traceback", get_target_hosts(inventory).exc>>>>
            /\ exit_code' = Exited(1)
            /\ pc' = "crashed"
            /\ UNCHANGED target_hosts
       ELSE /\ target_hosts' = get_target_hosts(inventory).hosts
            /\ IF target_hosts' = <<>>
               THEN /\ out' = out \o <<<<"ERROR: No master or worker nodes found in inventory", "">>>>
                    /\ exit_code' = Exited(1)
                    /\ pc' = "exited"
               ELSE /\ out' = out \o <<<<"Found target hosts:", ToString(Len(target_hosts'))>>>>
                                 \o Lines("TARGET", target_hosts')
                    /\ pc' = "targets"
                    /\ UNCHANGED exit_code
    /\ UNCHANGED <<file, inventory, inv_vars, fs, public_key, idx, authorized_keys_ok,
                   failed_hosts, known_hosts_ok, missing_host_keys, calls>>

\* "Get public key": no key (None, or an empty string) ends the process
\* with status 1
GetPublicKey ==
    /\ pc = "targets"
    /\ out' = out \o <<<<"Extracting public key", "">>>>
                  \o get_public_key_from_private(fs.public_key).printed
    /\ IF get_public_key_from_private(fs.public_key).none
          \/ get_public_key_from_private(fs.public_key).key = <<>>
       THEN /\ exit_code' = Exited(1)
            /\ pc' = "exited"
            /\ UNCHANGED <<public_key, idx>>
       ELSE /\ public_key' = get_public_key_from_private(fs.public_key).key
            /\ pc' = "check1"
            /\ idx' = 1
            /\ UNCHANGED exit_code
    /\ UNCHANGED <<file, inventory, inv_vars, fs, target_hosts, authorized_keys_ok,
                   failed_hosts, known_hosts_ok, missing_host_keys, calls>>

\* a faulty variant of "Check 1": the loop ends at the first host that
\* fails
CheckAuthorizedKeys_stops_at_failure ==
    /\ pc = "check1"
    /\ idx <= Len(target_hosts)
    /\ \E result \in SshRuns :
         LET host == target_hosts[idx]
             r == check_public_key_in_authorized_keys(result)
         IN  /\ calls' = Append(calls, [cmd |-> "ssh", ip |-> host.ip, result |-> result])
             /\ IF r.found
                THEN /\ out' = out \o <<<<"CHECK1", <<host.name, "Public key found in authorized_keys">>>>>>
                     /\ idx' = idx + 1
                     /\ UNCHANGED <<authorized_keys_ok, failed_hosts>>
                ELSE /\ out' = out \o <<<<"CHECK1", <<host.name, r.error_msg>>>>>>
                     /\ idx' = Len(target_hosts) + 1
                     /\ authorized_keys_ok' = FALSE
                     /\ failed_hosts' = Append(failed_hosts, [host |-> host, error |-> r.error_msg])
    /\ UNCHANGED <<pc, file, inventory, exit_code, inv_vars, fs, target_hosts, public_key,
                   known_hosts_ok, missing_host_keys>>

\* "Check 1": one pass of the loop over target_hosts; the ssh subprocess
\* does one of SshRuns
CheckAuthorizedKeys ==
    /\ pc = "check1"
    /\ idx <= Len(target_hosts)
    /\ \E result \in SshRuns :
         LET host == target_hosts[idx]
             r == check_public_key_in_authorized_keys(result)
         IN  /\ calls' = Append(calls, [cmd |-> "ssh", ip |-> host.ip, result |-> result])
             /\ IF r.found
                THEN /\ out' = out \o <<<<"CHECK1", <<host.name, "Public key found in authorized_keys">>>>>>
                     /\ UNCHANGED <<authorized_keys_ok, failed_hosts>>
                ELSE /\ out' = out \o <<<<"CHECK1", <<host.name, r.error_msg>>>>>>
                     /\ authorized_keys_ok' = FALSE
                     /\ failed_hosts' = Append(failed_hosts, [host |-> host, error |-> r.error_msg])
    /\ idx' = idx + 1
    /\ UNCHANGED <<pc, file, inventory, exit_code, inv_vars, fs, target_hosts, public_key,
                   known_hosts_ok, missing_host_keys>>

\* the end of the first loop: "Check 2" starts
StartKnownHosts ==
    /\ pc = "check1"
    /\ idx > Len(target_hosts)
    /\ pc' = "check2"
    /\ idx' = 1
    /\ out' = out \o <<<<"Checking known_hosts file", "">>>>
    /\ UNCHANGED <<file, inventory, exit_code, inv_vars, fs, target_hosts, public_key,
                   authorized_keys_ok, failed_hosts, known_hosts_ok, missing_host_keys, calls>>

\* "Check 2": one pass of the loop over target_hosts; ssh-keygen is run
\* only when the known_hosts file exists, and does one of KeygenRuns, but
\* for a host whose address is no string, which subprocess.run refuses;
\* when it cannot be run, get_host_key_from_known_hosts prints a warning
CheckKnownHosts ==
    /\ pc = "check2"
    /\ idx <= Len(target_hosts)
    /\ \E result \in (IF ~fs.known_hosts
                      THEN {TimeoutExpired}
                      ELSE IF IsStr(target_hosts[idx].ip)
                      THEN KeygenRuns
                      ELSE {TypeError(target_hosts[idx].ip)}) :
         LET host == target_hosts[idx]
         IN  /\ calls' = IF fs.known_hosts
                         THEN Append(calls, [cmd |-> "ssh-keygen", ip |-> host.ip,
                                             result |-> result])
                         ELSE calls
             /\ IF get_host_key_from_known_hosts(fs.known_hosts, result)
                THEN /\ out' = out \o <<<<"CHECK2", <<host.name, "Host key found in known_hosts">>>>>>
                     /\ UNCHANGED <<known_hosts_ok, missing_host_keys>>
                ELSE /\ out' = out
                          \o (IF fs.known_hosts /\ result.kind = "error"
                              THEN <<<<"WARNING: Could not check known_hosts", host.name>>>>
                              ELSE <<>>)
                          \o <<<<"CHECK2", <<host.name, "Host key NOT found in known_hosts">>>>>>
                     /\ known_hosts_ok' = FALSE
                     /\ missing_host_keys' = Append(missing_host_keys, host)
    /\ idx' = idx + 1
    /\ UNCHANGED <<pc, file, inventory, exit_code, inv_vars, fs, target_hosts, public_key,
                   authorized_keys_ok, failed_hosts>>

\* "Final result": the report and sys.exit; the list of missing host keys
\* ends with the command over host_ips, and when the join raises, nothing
\* catches it: the process ends there with the traceback and status 1
VerificationResult ==
    /\ pc = "check2"
    /\ idx > Len(target_hosts)
    /\ LET crashes == ~known_hosts_ok /\ host_ips(missing_host_keys).raised
       IN
       /\ out' = out \o
            (IF authorized_keys_ok /\ known_hosts_ok
             THEN <<<<"SSH configuration is COMPLETE", "">>>>
             ELSE <<<<"SSH configuration is INCOMPLETE", "">>>>
                  \o (IF ~authorized_keys_ok
                      THEN <<<<"Public key issue on host(s):", ToString(Len(failed_hosts))>>>>
                           \o [i \in 1..Len(failed_hosts) |->
                                  <<"PUBLIC_KEY_ISSUE",
                                    <<failed_hosts[i].host.name, failed_hosts[i].error>>>>]
                           \o <<<<"To fix: ssh-copy-id -i <key>.pub <user>@<host_ip>", "">>>>
                      ELSE <<>>)
                  \o (IF ~known_hosts_ok
                      THEN <<<<"Host keys missing in known_hosts for host(s):",
                               ToString(Len(missing_host_keys))>>>>
                           \o [i \in 1..Len(missing_host_keys) |->
                                  <<"MISSING_HOST_KEY", <<missing_host_keys[i].name, "">>>>]
                           \o <<<<"To fix: ssh-keyscan -H <host_ip> >> known_hosts", "">>>>
                           \o (IF crashes
                               THEN <<<<"Traceback", host_ips(missing_host_keys).exc>>>>
                               ELSE <<<<"Or for all hosts at once: ssh-keyscan -H",
                                        host_ips(missing_host_keys).text>>>>)
                      ELSE <<>>))
       /\ exit_code' = Exited(IF crashes
                              THEN 1
                              ELSE verification_status(authorized_keys_ok, known_hosts_ok))
       /\ pc' = IF crashes THEN "crashed" ELSE "exited"
    /\ UNCHANGED <<file, inventory, inv_vars, ssh_vars>>

NextSsh ==
    \/ CheckPrivateKey
    \/ SshLoadInventory
    \/ GetTargetHosts
    \/ GetPublicKey
    \/ CheckAuthorizedKeys
    \/ StartKnownHosts
    \/ CheckKnownHosts
    \/ VerificationResult

Init == InitInventory
Next == NextInventory
\* a run of the inventory validator
Spec == Init /\ [][Next]_vars
\* a run of the SSH trust checker
SpecSsh == InitSsh /\ [][NextSsh]_vars

(***************************************************************************)
(* Properties.  What the specification text says of a document is defined  *)
(* here from the text, apart from the code's functions, and compared with  *)
(* what the runs do.                                                       *)
(***************************************************************************)
\* how far the run of the inventory validator has got on a loaded document:
\* a step is done when it has returned or failed
Printed(tag) == \E i \in 1..Len(out) : out[i][1] = tag
Loaded == Printed("YAML syntax is valid")
StructureChecked ==
    Loaded /\ pc \in {"structure_checked", "placeholders_checked",
                       "ip_checked", "crashed", "exited"}
PlaceholdersScanned ==
    /\ Loaded
    /\ pc \in {"placeholders_checked", "ip_checked", "crashed", "exited"}
    /\ (Printed("No placeholder values found")
          \/ Printed("Found placeholder values that need to be replaced:"))
IpStepDone ==
    PlaceholdersScanned /\ pc \in {"ip_checked", "crashed", "exited"}
RunEnded == pc \in {"crashed", "exited"}

\* every string leaf of a document that holds a placeholder token, at any
\* depth, under mappings and sequences alike, in traversal order: the
\* entries or items of data from the i-th on
RECURSIVE placeholder_leaves_from(_, _, _)
placeholder_leaves_from(data, path, i) ==
    IF (IsMap(data) \/ IsList(data)) /\ i <= Len(data.kv)
    THEN LET child == IF IsMap(data) THEN data.kv[i][2] ELSE data.kv[i]
             step == IF IsMap(data)
                     THEN (IF path = "" THEN "" ELSE path \o ".") \o data.kv[i][1]
                     ELSE path \o "[" \o ToString(i - 1) \o "]"
         IN  (IF IsStr(child)
              THEN (IF \E k \in 1..Len(PLACEHOLDER_PATTERNS) :
                            ReSearch(PLACEHOLDER_PATTERNS[k], child.s)
                    THEN <<[path |-> step, value |-> child.s,
                            placeholders |-> check_placeholder(child)]>>
                    ELSE <<>>)
              ELSE placeholder_leaves_from(child, step, 1))
             \o placeholder_leaves_from(data, path, i + 1)
    ELSE <<>>
placeholder_leaves(doc) == placeholder_leaves_from(doc, "", 1)

\* a populated field whose string is no IP address, no CIDR network
not_an_address(v) == IsStr(v) /\ ~validate_ip_address(v.s)
not_a_network(v) == IsStr(v) /\ ~validate_ip_network(v.s)

\* the hosts of the g-th group of all.children, none when the group has no
\* host mapping
hosts_of(doc, g) ==
    LET children == GetOrEmpty(GetOrEmpty(doc, "all"), "children")
        hosts == GetOrEmpty(children.kv[g][2], "hosts")
    IN  IF IsMap(hosts) THEN hosts.kv ELSE <<>>

\* some designated variable or host field of the document holds a string
\* of the wrong format
has_format_error(doc) ==
    LET vars_section == GetOrEmpty(GetOrEmpty(doc, "all"), "vars")
        children == GetOrEmpty(GetOrEmpty(doc, "all"), "children")
    IN  \/ \E i \in 1..Len(network_vars) :
              /\ HasKey(vars_section, network_vars[i])
              /\ not_a_network(Get(vars_section, network_vars[i]))
        \/ \E i \in 1..Len(ip_vars) :
              /\ HasKey(vars_section, ip_vars[i])
              /\ not_an_address(Get(vars_section, ip_vars[i]))
        \/ \E g \in 1..Len(children.kv) :
              \E h \in 1..Len(hosts_of(doc, g)), f \in 1..Len(host_ip_fields) :
                 /\ HasKey(hosts_of(doc, g)[h][2], host_ip_fields[f])
                 /\ not_an_address(Get(hosts_of(doc, g)[h][2], host_ip_fields[f]))

\* the lines of `out` with one tag
lines_tagged(tag) == SelectSeq(out, LAMBDA l : l[1] = tag)

\* C1: in every run of the trust checker, an ssh command that completed
\* with status 0 and printed FOUND makes the host pass; one that completed
\* with status 0 and printed NOT_FOUND makes the host fail with 'Public key
\* not found in authorized_keys'; one that completed with another status
\* makes the host fail with the connection error carrying that status.
C1_ThreeOutcomes ==
    \A i \in 1..Len(lines_tagged("CHECK1")) :
        LET r == calls[i].result
            host == target_hosts[i]
            printed == lines_tagged("CHECK1")[i][2]
            failed(msg) == /\ printed = <<host.name, msg>>
                           /\ \E j \in 1..Len(failed_hosts) :
                                 failed_hosts[j] = [host |-> host, error |-> msg]
        IN  r.kind = "completed" =>
              /\ (r.returncode = 0 /\ r.stdout = S_FOUND_nl) =>
                    /\ printed = <<host.name, "Public key found in authorized_keys">>
                    /\ \A j \in 1..Len(failed_hosts) : failed_hosts[j].host # host
              /\ (r.returncode = 0 /\ r.stdout = S_NOT_FOUND_nl) =>
                    failed("Public key not found in authorized_keys")
              /\ r.returncode # 0 =>
                    failed("SSH connection failed (return code: "
                             \o ToString(r.returncode) \o ")")

\* C2: a run of the inventory validator that has ended on a loaded document
\* exits 0 when the document has no structural error, no placeholder token
\* and no format error, and 1 otherwise; warnings do not count.
C2_ExitZeroIffValid ==
    (RunEnded /\ Loaded) =>
        exit_code = Exited(IF /\ ~validate_inventory_structure(inventory).raised
                              /\ validate_inventory_structure(inventory).errors = <<>>
                              /\ placeholder_leaves(inventory) = <<>>
                              /\ ~has_format_error(inventory)
                           THEN 0 ELSE 1)

\* C3: once the IP step of a run is over, a document holding a placeholder
\* token anywhere has had no IP check printed or counted, and the run that
\* has ended on it has exit status 1.
C3_PlaceholderSkipsIpChecks ==
    (IpStepDone /\ placeholder_leaves(inventory) # <<>>) =>
        /\ ip_errors = <<>>
        /\ lines_tagged("IP address formats are valid") = <<>>
        /\ lines_tagged("IP address validation failed:") = <<>>
        /\ RunEnded => /\ exit_code = Exited(1)
                       /\ total_errors = Len(structure_errors)

\* the subprocesses run so far with one command
calls_of(cmd) == SelectSeq(calls, LAMBDA c : c.cmd = cmd)

\* how a target host fared in check 1 and in check 2, by what the remote
\* command and the lookup found: the host passed check 1 when its ssh
\* command completed with status 0 and reported the key present, and
\* failed it when the command reported anything else or did not complete;
\* it passed check 2 when ssh-keygen found it in the known_hosts file
passed_authorized_keys(host) ==
    \E i \in 1..Len(calls_of("ssh")) :
        /\ target_hosts[i] = host
        /\ calls_of("ssh")[i].result = Completed(0, S_FOUND_nl)
failed_authorized_keys(host) ==
    \E i \in 1..Len(calls_of("ssh")) :
        /\ target_hosts[i] = host
        /\ calls_of("ssh")[i].result # Completed(0, S_FOUND_nl)
passed_known_hosts(host) ==
    /\ fs.known_hosts
    /\ \E i \in 1..Len(calls_of("ssh-keygen")) :
          /\ target_hosts[i] = host
          /\ calls_of("ssh-keygen")[i].result.kind = "completed"
          /\ calls_of("ssh-keygen")[i].result.returncode = 0

\* C4: a run of the trust checker that has ended has exit status 0 when the
\* target list is not empty, both key files exist and every target host
\* passed check 1 and check 2, and exit status 1 otherwise; and when, of two
\* target hosts, one passed both checks and the other failed check 1, the
\* exit status is 1 and the 'Public key issue' list is that one host.
C4_ExitZeroIffAllPassed ==
    RunEnded =>
        /\ exit_code =
             Exited(IF /\ target_hosts # <<>>
                       /\ fs.private_key
                       /\ fs.public_key.state # "missing"
                       /\ \A i \in 1..Len(target_hosts) :
                             /\ passed_authorized_keys(target_hosts[i])
                             /\ passed_known_hosts(target_hosts[i])
                    THEN 0 ELSE 1)
        /\ \A i, j \in 1..Len(target_hosts) :
              (/\ Len(target_hosts) = 2
               /\ i # j
               /\ passed_authorized_keys(target_hosts[i])
               /\ passed_known_hosts(target_hosts[i])
               /\ failed_authorized_keys(target_hosts[j]))
              => /\ exit_code = Exited(1)
                 /\ lines_tagged("Public key issue on host(s):")
                      = << <<"Public key issue on host(s):", "1">> >>
                 /\ Len(lines_tagged("PUBLIC_KEY_ISSUE")) = 1
                 /\ lines_tagged("PUBLIC_KEY_ISSUE")[1][2][1] = target_hosts[j].name

\* C5: whatever the inventory file holds, a run of the trust checker that
\* finds the private key but not its '.pub' sibling ends with 'Public key
\* file not found', the ssh-keygen hint and exit status 1, and runs no ssh
\* and no ssh-keygen; a run that does not find the private key ends at once
\* with exit status 1.
C5_MissingPublicKeyReported ==
    /\ (fs.private_key /\ fs.public_key.state = "missing") =>
          /\ calls = <<>>
          /\ lines_tagged("CHECK2") = <<>>
          /\ RunEnded =>
                /\ exit_code = Exited(1)
                /\ lines_tagged("ERROR: Public key file not found") # <<>>
                /\ lines_tagged("Generate it with: ssh-keygen -y -f <private_key> > <private_key>.pub")
                     # <<>>
    /\ (~fs.private_key /\ pc # "start") =>
          /\ pc = "exited"
          /\ exit_code = Exited(1)
          /\ out = << <<"ERROR: Private key file not found", "">> >>
          /\ inventory = Null
          /\ calls = <<>>

\* C6: once the scan is done, the records found are those of the string
\* leaves of the document that hold a placeholder, the items of sequences
\* among them, one record each with its path, in traversal order.
C6_EveryPlaceholderLeafRecorded ==
    PlaceholdersScanned => placeholders = placeholder_leaves(inventory)

\* C7: once the structure is checked, a document without the top-level
\* 'all' key has given the one error "Missing 'all' section at top level"
\* and no warning: nothing of vars, children, groups or hosts is reported.
C7_MissingAllFailsFast ==
    (StructureChecked /\ ~HasKey(inventory, "all")) =>
        /\ structure_errors = <<"Missing 'all' section at top level">>
        /\ structure_warnings = <<>>
        /\ lines_tagged("ERROR")[1] = <<"ERROR", "Missing 'all' section at top level">>
        /\ lines_tagged("WARNING") = <<>>

\* the required groups of a document whose 'hosts' entry is there and holds
\* no host
empty_hosts_groups(doc) ==
    LET children == GetOrEmpty(GetOrEmpty(doc, "all"), "children")
    IN  {g \in {REQUIRED_GROUPS[i] : i \in 1..Len(REQUIRED_GROUPS)} :
            /\ HasKey(children, g)
            /\ HasKey(Get(children, g), "hosts")
            /\ ~Truthy(Get(Get(children, g), "hosts"))}

\* C8: for a document with a required group whose 'hosts' entry is there
\* but empty, the structural check gives one warning and no error for that
\* group and still reports the other required groups, and the run goes on to
\* its summary without failing.
C8_EmptyHostsOnlyWarns ==
    LET children == GetOrEmpty(GetOrEmpty(inventory, "all"), "children")
    IN  StructureChecked =>
          \A g \in empty_hosts_groups(inventory) :
             /\ Len(SelectSeq(structure_warnings,
                              LAMBDA w : w = "Group '" \o g \o "' has no hosts defined")) = 1
             /\ \A i \in 1..Len(structure_errors) :
                   /\ structure_errors[i] # "Missing required group: " \o g
                   /\ structure_errors[i] # "Missing 'hosts' section in group '" \o g \o "'"
             /\ \A i \in 1..Len(REQUIRED_GROUPS) :
                   ~HasKey(children, REQUIRED_GROUPS[i]) =>
                      \E j \in 1..Len(structure_errors) :
                         structure_errors[j] = "Missing required group: " \o REQUIRED_GROUPS[i]
             /\ pc # "crashed"
             /\ RunEnded => /\ pc = "exited"
                            /\ Len(out) > 0
                            /\ out[Len(out)][1] \in
                                 {"Inventory file is valid and ready to use!",
                                  "Inventory file has placeholder values that need to be replaced.",
                                  "Inventory file has error(s) that need to be fixed:"}

\* the errors reported for one designated field: prefix is the message up
\* to the value
errors_naming(prefix) == SelectSeq(ip_errors, LAMBDA e : e[1] = prefix)

\* C9: a document without placeholder has every designated field checked:
\* the IP step does not fail, and each network variable, each gateway or VIP
\* variable and each address field of each host of each group has one error
\* naming it and its value when it is there with a string of the wrong
\* format, and none otherwise.
C9_EveryFieldChecked ==
    LET vars_section == GetOrEmpty(GetOrEmpty(inventory, "all"), "vars")
        children == GetOrEmpty(GetOrEmpty(inventory, "all"), "children")
        one_error(prefix, m, k, bad) ==
            errors_naming(prefix) = IF HasKey(m, k) /\ bad
                                    THEN << <<prefix, Get(m, k).s>> >>
                                    ELSE <<>>
    IN  (IpStepDone /\ placeholders = <<>>) =>
          /\ pc # "crashed"
          /\ \A i \in 1..Len(network_vars) :
                one_error("Invalid network format in " \o network_vars[i] \o ": ",
                          vars_section, network_vars[i],
                          not_a_network(GetOrEmpty(vars_section, network_vars[i])))
          /\ \A i \in 1..Len(ip_vars) :
                one_error("Invalid IP address format in " \o ip_vars[i] \o ": ",
                          vars_section, ip_vars[i],
                          not_an_address(GetOrEmpty(vars_section, ip_vars[i])))
          /\ \A g \in 1..Len(children.kv) :
                \A h \in 1..Len(hosts_of(inventory, g)), f \in 1..Len(host_ip_fields) :
                   one_error("Invalid IP address in " \o hosts_of(inventory, g)[h][1]
                               \o "." \o host_ip_fields[f] \o ": ",
                             hosts_of(inventory, g)[h][2], host_ip_fields[f],
                             not_an_address(GetOrEmpty(hosts_of(inventory, g)[h][2],
                                                       host_ip_fields[f])))

\* the names of a sequence that are no key of a mapping, in their order
missing_from(m, names) == SelectSeq(names, LAMBDA k : ~HasKey(m, k))

\* the errors the structural check is to give for a document with 'all':
\* the variables, then the groups bastion, masters, workers, each group's
\* hosts in their order and each host's fields in the order required
expected_group_errors(children, g, type) ==
    IF ~HasKey(children, g)
    THEN <<"Missing required group: " \o g>>
    ELSE IF ~HasKey(Get(children, g), "hosts")
    THEN <<"Missing 'hosts' section in group '" \o g \o "'">>
    ELSE IF ~Truthy(Get(Get(children, g), "hosts"))
    THEN <<>>
    ELSE LET hosts == IF IsMap(Get(Get(children, g), "hosts"))
                      THEN Get(Get(children, g), "hosts").kv
                      ELSE <<>>
         IN  Flatten([h \in 1..Len(hosts) |->
                 LET missing == missing_from(hosts[h][2], REQUIRED_HOST_FIELDS[type])
                 IN  [i \in 1..Len(missing) |->
                        "Host '" \o hosts[h][1] \o "' (" \o g
                          \o ") missing required field: " \o missing[i]]])
expected_structure_errors(doc) ==
    LET all_section == Get(doc, "all")
        missing == missing_from(GetOrEmpty(all_section, "vars"), REQUIRED_VARS)
    IN  (IF ~HasKey(all_section, "vars")
         THEN <<"Missing 'vars' section in 'all'">>
         ELSE [i \in 1..Len(missing) |-> "Missing required variable: " \o missing[i]])
        \o
        (IF ~HasKey(all_section, "children")
         THEN <<"Missing 'children' section in 'all'">>
         ELSE expected_group_errors(Get(all_section, "children"), "bastion", "bastion")
              \o expected_group_errors(Get(all_section, "children"), "masters", "master")
              \o expected_group_errors(Get(all_section, "children"), "workers", "worker"))

\* C10: once the structure of a document with 'all' is checked, the errors
\* are all the findings in order: one per missing required variable (one
\* for a missing 'vars'), then, when 'children' is there, those of bastion,
\* of masters and of workers (the missing group, the missing 'hosts', or one
\* per missing field of each host, naming host and group), and when it is
\* not, the missing-'children' error alone; they are printed as ERROR lines,
\* and a run that has ended with such an error has exit status 1.
C10_AllErrorsInOrder ==
    (StructureChecked /\ HasKey(inventory, "all")) =>
        /\ structure_errors = expected_structure_errors(inventory)
        /\ SubSeq(lines_tagged("ERROR"), 1, Len(structure_errors))
             = [i \in 1..Len(structure_errors) |-> <<"ERROR", structure_errors[i]>>]
        /\ (RunEnded /\ structure_errors # <<>>) => exit_code = Exited(1)

\* the hosts of a group of the document that carry 'ansible_host', in the
\* order of the inventory: <<name, variables>>
hosts_with_address(doc, group) ==
    LET children == GetOrEmpty(GetOrEmpty(doc, "all"), "children")
        hosts == GetOrEmpty(GetOrEmpty(children, group), "hosts")
    IN  IF IsMap(hosts)
        THEN SelectSeq(hosts.kv, LAMBDA p : HasKey(p[2], "ansible_host"))
        ELSE <<>>

\* the trust checker has started checking: it holds the public key
CheckingStarted == public_key # <<>>

\* C11: the targets are the masters, then the workers, in inventory order.
\* Once checking has started, the hosts checked so far are the first of the
\* list, in list order, each with one ssh run and one line of check 1, then
\* each with one line of check 2 (and one ssh-keygen run when known_hosts
\* exists); no line of check 2 precedes a line of check 1, no ssh-keygen an
\* ssh; a host whose ssh timed out, failed or could not be run is listed as
\* failed and the loop goes on; and the run ends, however it ends, only
\* after both checks have covered every target, with exit status 1 if a
\* host failed.
C11_EveryHostCheckedOnceInOrder ==
    CheckingStarted =>
        /\ [i \in 1..Len(target_hosts) |-> target_hosts[i].name]
             = [i \in 1..Len(hosts_with_address(inventory, "masters")
                             \o hosts_with_address(inventory, "workers")) |->
                  (hosts_with_address(inventory, "masters")
                     \o hosts_with_address(inventory, "workers"))[i][1]]
        /\ Len(lines_tagged("CHECK1")) <= Len(target_hosts)
        /\ Len(lines_tagged("CHECK2")) <= Len(target_hosts)
        /\ \A i \in 1..Len(lines_tagged("CHECK1")) :
              lines_tagged("CHECK1")[i][2][1] = target_hosts[i].name
        /\ \A i \in 1..Len(lines_tagged("CHECK2")) :
              lines_tagged("CHECK2")[i][2][1] = target_hosts[i].name
        /\ Len(calls_of("ssh")) = Len(lines_tagged("CHECK1"))
        /\ \A i \in 1..Len(calls_of("ssh")) : calls_of("ssh")[i].ip = target_hosts[i].ip
        /\ Len(calls_of("ssh-keygen"))
             = (IF fs.known_hosts THEN Len(lines_tagged("CHECK2")) ELSE 0)
        /\ \A i \in 1..Len(calls_of("ssh-keygen")) :
              calls_of("ssh-keygen")[i].ip = target_hosts[i].ip
        /\ lines_tagged("CHECK2") # <<>> => Len(lines_tagged("CHECK1")) = Len(target_hosts)
        /\ \A i, j \in 1..Len(out) :
              (out[i][1] = "CHECK2" /\ out[j][1] = "CHECK1") => j < i
        /\ \A i, j \in 1..Len(calls) :
              (calls[i].cmd = "ssh-keygen" /\ calls[j].cmd = "ssh") => j < i
        /\ \A i \in 1..Len(calls_of("ssh")) :
              (\/ calls_of("ssh")[i].result.kind \in {"timeout", "error"}
               \/ calls_of("ssh")[i].result.returncode # 0)
              => /\ lines_tagged("CHECK1")[i][2][2] # "Public key found in authorized_keys"
                 /\ Len(SelectSeq(failed_hosts, LAMBDA f : f.host = target_hosts[i])) = 1
                 /\ ~authorized_keys_ok
        /\ \A i \in 1..Len(calls_of("ssh")) :
              calls_of("ssh")[i].result.kind = "timeout" =>
                 \E j \in 1..Len(failed_hosts) :
                    failed_hosts[j] = [host |-> target_hosts[i],
                                       error |-> "SSH connection timeout"]
        /\ RunEnded =>
              /\ Len(lines_tagged("CHECK1")) = Len(target_hosts)
              /\ Len(lines_tagged("CHECK2")) = Len(target_hosts)
              /\ failed_hosts # <<>> => exit_code = Exited(1)

\* C11, its case: a run over two hosts has ended; the ssh of the first host
\* timed out, and the second host was checked all the same, and both had
\* their known-hosts lookup after it, the second though the lookup of the
\* first, whose address is no string, raised an exception
C11_Witness ==
    /\ RunEnded
    /\ CheckingStarted
    /\ Len(target_hosts) = 2
    /\ calls_of("ssh")[1].result.kind = "timeout"
    /\ Len(calls_of("ssh")) = 2
    /\ passed_authorized_keys(target_hosts[2])
    /\ Len(calls_of("ssh-keygen")) = 2
    /\ calls_of("ssh-keygen")[1].result = TypeError(Null)
    /\ passed_known_hosts(target_hosts[2])
    /\ Len(lines_tagged("CHECK2")) = 2
    /\ Len(failed_hosts) = 1
    /\ exit_code = Exited(1)

\* C12: without a known_hosts file, once checking has started: ssh-keygen
\* is never run, nothing fails fatally and no warning is printed, every
\* lookup done reports the host key as not found, and the run that has
\* ended has done the lookup for every target, lists every target under
\* the missing host keys, in list order, and has exit status 1.
C12_NoKnownHostsFileAllMissing ==
    (CheckingStarted /\ ~fs.known_hosts) =>
        /\ calls_of("ssh-keygen") = <<>>
        /\ pc # "crashed"
        /\ lines_tagged("WARNING: Could not check known_hosts") = <<>>
        /\ \A i \in 1..Len(lines_tagged("CHECK2")) :
              lines_tagged("CHECK2")[i]
                = <<"CHECK2", <<target_hosts[i].name, "Host key NOT found in known_hosts">>>>
        /\ missing_host_keys = SubSeq(target_hosts, 1, Len(lines_tagged("CHECK2")))
        /\ RunEnded =>
              /\ Len(lines_tagged("CHECK2")) = Len(target_hosts)
              /\ missing_host_keys = target_hosts
              /\ lines_tagged("Host keys missing in known_hosts for host(s):")
                   = << <<"Host keys missing in known_hosts for host(s):",
                          ToString(Len(target_hosts))>> >>
              /\ lines_tagged("MISSING_HOST_KEY")
                   = [i \in 1..Len(target_hosts) |->
                        <<"MISSING_HOST_KEY", <<target_hosts[i].name, "">>>>]
              /\ lines_tagged("SSH configuration is INCOMPLETE") # <<>>
              /\ exit_code = Exited(1)
=============================================================================
